---- MODULE Spec2Model ----
(***************************************************************************)
(* Model of the event-detail view (SpecificEvent) of the Mininsalan        *)
(* frontend: challenge classification, countdown text, the stats           *)
(* counters, the boundary refresh timer, the details cache and the fetch   *)
(* of event details; and of the cache and fetch of the two events list     *)
(* views.  All instants are milliseconds since the epoch, as               *)
(* Date.getTime() gives them.                                              *)
(***************************************************************************)
EXTENDS Integers, Sequences, FiniteSets, TLC

VARIABLES
    eventDetails,   \* useState<EventDetails | null>: NoDetails or [challenges |-> Seq]
    loading,        \* useState(true)
    error,          \* useState<string | null>: NoError or a message
    filter,         \* useState<ChallengeFilter>('active')
    currentTime,    \* useState(new Date()), refreshed by the 1 s interval
    clock,          \* the wall clock: what new Date() / Date.now() return
    timer,          \* the timeout handle the auto-refresh effect's cleanup holds
    host,           \* the window's scheduled callbacks: the interval, the timeouts
    inflight,       \* fetches of /api/events/:id awaiting their response
    cache,          \* localStorage entry event-<id>-details
    mounted,        \* "constructed", "mounted" or "unmounted"
    server,         \* the challenges the data provider answers with
    eventsPage,     \* the state of the events list view on screen, if one is
    admin,          \* the state of the challenge admin form, if it is on screen
    searchTerm      \* useState(''): the characters typed into the search input

detailVars == <<eventDetails, loading, error, filter, currentTime, clock, timer,
                host, inflight, cache, mounted, server, searchTerm>>

viewVars == <<detailVars, eventsPage>>

vars == <<eventDetails, loading, error, filter, currentTime, clock, timer,
          host, inflight, cache, mounted, server, eventsPage, admin, searchTerm>>

(***************************************************************************)
(* Bounds of the model.                                                    *)
(***************************************************************************)
MaxDays == 1          \* days in the sampled durations
MaxHours == 1         \* hours in the sampled durations
EpochMs == 3600000    \* the instant of construction
MaxChallenges == 2    \* challenges of an event
MaxSteps == 6         \* half seconds the clock advances
MaxInflight == 2      \* fetches in flight together
MaxSeconds == 14      \* seconds the clock advances in the release runs
MaxEdits == 3         \* inputs changed and saves asked in the admin form
MaxDuration == 1      \* hours typed into the duration input
MaxEvents == 2        \* events of the summary list
MaxTerm == 2          \* characters of a search term
MaxPending == 1       \* saves, and loads, of the admin form awaiting their response

NoDetails == [loaded |-> FALSE, challenges |-> <<>>]
NoError == "null"
NoTimer == [set |-> FALSE, delay |-> 0, deadline |-> 0]
NoHost == [interval |-> FALSE, timeouts |-> <<>>]
NoListCache == [present |-> FALSE, parses |-> FALSE, data |-> <<>>, timestamp |-> 0]
NoPage == [view |-> "none", events |-> <<>>, loading |-> TRUE, error |-> NoError,
           requests |-> 0, cache |-> NoListCache, mounted |-> "unmounted"]
\* ChallengeManagement: a date string is empty or denotes an instant
NoDate == [form |-> "empty", ms |-> 0]
DateString(ms) == [form |-> "date", ms |-> ms]
NoGame == "null"
NoEvent == [id |-> 0, startDate |-> NoDate, endDate |-> NoDate]
NewChallengeDefaults ==
    [id |-> 0, title |-> "", description |-> "", points |-> 0,
     type |-> "TEMPORARY", reward |-> "REDBULL", releaseTime |-> NoDate,
     endTime |-> NoDate, game |-> NoGame, event |-> NoEvent, categories |-> <<>>]
\* editingChallenge is <<>> for null, listObject tells whether it is the
\* very object of the challenges list; fetching counts the fetchData calls
\* and saving holds the PUT and POST requests awaiting their response
ConstructedAdmin(stored) ==
    [mounted |-> FALSE, server |-> stored, challenges |-> <<>>, loading |-> TRUE,
     error |-> NoError, newChallenge |-> NewChallengeDefaults,
     editingChallenge |-> <<>>, listObject |-> FALSE, publishFromStart |-> TRUE,
     duration |-> 0, fetching |-> 0, saving |-> <<>>, edits |-> 0]
NoAdmin == ConstructedAdmin(<<>>)
NoCache == [present |-> FALSE, parses |-> FALSE, data |-> NoDetails, timestamp |-> 0]

ChallengeTypes == {"TEMPORARY", "PERMANENT", "RACE"}
Filters == {"all", "active", "upcoming", "completed", "expired"}

(***************************************************************************)
(* Arithmetic of the host language.                                        *)
(***************************************************************************)
\* Math.trunc of a quotient: rounds toward zero
TruncDiv(a, b) == IF a >= 0 THEN a \div b ELSE -((-a) \div b)

\* the % operator: the sign follows the dividend
JsRem(a, b) == IF a >= 0 THEN a % b ELSE -((-a) % b)

\* Math.floor(a / b) for b > 0
FloorDiv(a, b) == a \div b

\* date-fns differenceInSeconds(later, earlier): whole seconds, truncated
differenceInSeconds(later, earlier) == TruncDiv(later - earlier, 1000)

\* numbers extended with Infinity, as the effect's nextUpdate needs them
Infinity == [inf |-> TRUE, v |-> 0]
Num(n) == [inf |-> FALSE, v |-> n]
\* variant: the larger of the two is kept
MathMax(a, b) ==
    IF a.inf THEN b
    ELSE IF b.inf THEN a
    ELSE IF b.v > a.v THEN b ELSE a

MathMin(a, b) ==
    IF a.inf THEN b
    ELSE IF b.inf THEN a
    ELSE IF b.v < a.v THEN b ELSE a

(***************************************************************************)
(* getChallengeStatus                                                      *)
(***************************************************************************)
\* variant: the release test comes before the completion test
getChallengeStatusTimeFirst(challenge, now) ==
    IF now < challenge.releaseTime
    THEN [status |-> "upcoming", color |-> "#ffd700"]
    ELSE IF challenge.isCompleted
    THEN [status |-> "completed", color |-> "#00ff88"]
    ELSE IF now > challenge.endTime /\ challenge.type # "PERMANENT"
    THEN [status |-> "expired", color |-> "#ff4444"]
    ELSE [status |-> "active", color |-> "#00ff88"]

\* variant: the end instant itself already counts as expired
getChallengeStatusEndExclusive(challenge, now) ==
    IF challenge.isCompleted
    THEN [status |-> "completed", color |-> "#00ff88"]
    ELSE IF now < challenge.releaseTime
    THEN [status |-> "upcoming", color |-> "#ffd700"]
    ELSE IF now >= challenge.endTime /\ challenge.type # "PERMANENT"
    THEN [status |-> "expired", color |-> "#ff4444"]
    ELSE [status |-> "active", color |-> "#00ff88"]

\* variant: the expiry test comes before the release test
getChallengeStatusExpiredFirst(challenge, now) ==
    IF challenge.isCompleted
    THEN [status |-> "completed", color |-> "#00ff88"]
    ELSE IF now > challenge.endTime /\ challenge.type # "PERMANENT"
    THEN [status |-> "expired", color |-> "#ff4444"]
    ELSE IF now < challenge.releaseTime
    THEN [status |-> "upcoming", color |-> "#ffd700"]
    ELSE [status |-> "active", color |-> "#00ff88"]

\* variant: the expired counter forgets the type
StatsStepAnyType(acc, challenge, now) ==
    LET a == [acc EXCEPT !.totalPoints = @ + challenge.points]
    IN  IF challenge.isCompleted
        THEN [a EXCEPT !.completedChallenges = @ + 1,
                       !.earnedPoints = @ + challenge.points]
        ELSE IF now < challenge.releaseTime
        THEN [a EXCEPT !.upcomingChallenges = @ + 1]
        ELSE IF now > challenge.endTime
        THEN [a EXCEPT !.expiredChallenges = @ + 1]
        ELSE [a EXCEPT !.activeChallenges = @ + 1]

getChallengeStatus(challenge, now) ==
    IF challenge.isCompleted
    THEN [status |-> "completed", color |-> "#00ff88"]
    ELSE IF now < challenge.releaseTime
    THEN [status |-> "upcoming", color |-> "#ffd700"]
    ELSE IF now > challenge.endTime /\ challenge.type # "PERMANENT"
    THEN [status |-> "expired", color |-> "#ff4444"]
    ELSE [status |-> "active", color |-> "#00ff88"]

(***************************************************************************)
(* getCountdown: the text is a label and the units printed with it, in     *)
(* the order printed.                                                      *)
(***************************************************************************)
Unit(n, u) == [n |-> n, u |-> u]

\* variant: units that are zero are skipped
CountdownUpcomingNonZero(diff) ==
    LET days == FloorDiv(diff, 86400)
        hours == FloorDiv(JsRem(diff, 86400), 3600)
        minutes == FloorDiv(JsRem(diff, 3600), 60)
        seconds == JsRem(diff, 60)
        all == <<Unit(days, "j"), Unit(hours, "h"), Unit(minutes, "m"),
                 Unit(seconds, "s")>>
        shown == SelectSeq(all, LAMBDA x : x.n > 0)
    IN  [label |-> "Demarre dans",
         units |-> IF diff < 60 THEN <<Unit(seconds, "s")>>
                   ELSE SubSeq(shown, 1, IF Len(shown) < 2 THEN Len(shown) ELSE 2),
         color |-> "#ffd700"]

\* variant: everything from ten minutes up is in the tier of whole hours
CountdownRemainingTwoTiers(diff) ==
    LET days == FloorDiv(diff, 86400)
        hours == FloorDiv(JsRem(diff, 86400), 3600)
        minutes == FloorDiv(JsRem(diff, 3600), 60)
        seconds == JsRem(diff, 60)
    IN  IF diff <= 0
        THEN [label |-> "Expire", units |-> <<>>, color |-> "#ff4444"]
        ELSE IF days > 0
        THEN [label |-> "restantes", units |-> <<Unit(days, "j"), Unit(hours, "h")>>,
              color |-> "#00ff88"]
        ELSE IF hours > 0
        THEN [label |-> "restantes", units |-> <<Unit(hours, "h"), Unit(minutes, "m")>>,
              color |-> "#00ff88"]
        ELSE IF minutes > 0
        THEN [label |-> "restantes", units |-> <<Unit(minutes, "m"), Unit(seconds, "s")>>,
              color |-> IF minutes < 10 THEN "#ff4444" ELSE "#00ff88"]
        ELSE [label |-> "restantes", units |-> <<Unit(seconds, "s")>>,
              color |-> "#ff4444"]

CountdownUpcoming(diff) ==
    LET days == FloorDiv(diff, 86400)
        hours == FloorDiv(JsRem(diff, 86400), 3600)
        minutes == FloorDiv(JsRem(diff, 3600), 60)
        seconds == JsRem(diff, 60)
    IN  IF days > 0
        THEN [label |-> "Demarre dans", units |-> <<Unit(days, "j"), Unit(hours, "h")>>,
              color |-> "#ffd700"]
        ELSE IF hours > 0
        THEN [label |-> "Demarre dans", units |-> <<Unit(hours, "h"), Unit(minutes, "m")>>,
              color |-> "#ffd700"]
        ELSE IF minutes > 0
        THEN [label |-> "Demarre dans", units |-> <<Unit(minutes, "m"), Unit(seconds, "s")>>,
              color |-> "#ffd700"]
        ELSE [label |-> "Demarre dans", units |-> <<Unit(seconds, "s")>>,
              color |-> "#ffd700"]

CountdownRemaining(diff) ==
    LET days == FloorDiv(diff, 86400)
        hours == FloorDiv(JsRem(diff, 86400), 3600)
        minutes == FloorDiv(JsRem(diff, 3600), 60)
        seconds == JsRem(diff, 60)
    IN  IF diff <= 0
        THEN [label |-> "Expire", units |-> <<>>, color |-> "#ff4444"]
        ELSE IF days > 0
        THEN [label |-> "restantes", units |-> <<Unit(days, "j"), Unit(hours, "h")>>,
              color |-> "#00ff88"]
        ELSE IF hours > 0
        THEN [label |-> "restantes", units |-> <<Unit(hours, "h"), Unit(minutes, "m")>>,
              color |-> IF hours < 1 THEN "#ff8800" ELSE "#00ff88"]
        ELSE IF minutes > 0
        THEN [label |-> "restantes", units |-> <<Unit(minutes, "m"), Unit(seconds, "s")>>,
              color |-> IF minutes < 10 THEN "#ff4444" ELSE "#ff8800"]
        ELSE [label |-> "restantes", units |-> <<Unit(seconds, "s")>>,
              color |-> "#ff4444"]

getCountdown(challenge, now) ==
    IF challenge.isCompleted
    THEN [label |-> "Complete", units |-> <<>>, color |-> "#00ff88"]
    ELSE IF now < challenge.releaseTime
    THEN CountdownUpcoming(differenceInSeconds(challenge.releaseTime, now))
    ELSE IF challenge.type = "PERMANENT"
    THEN [label |-> "Permanent", units |-> <<>>, color |-> "#00ff88"]
    ELSE IF now > challenge.endTime
    THEN [label |-> "Expire", units |-> <<>>, color |-> "#ff4444"]
    ELSE CountdownRemaining(differenceInSeconds(challenge.endTime, now))

(***************************************************************************)
(* stats: the counters of the useMemo, accumulated challenge by challenge. *)
(***************************************************************************)
\* variant: every challenge's points count as earned
StatsStepEarnsAll(acc, challenge, now) ==
    LET a == [acc EXCEPT !.totalPoints = @ + challenge.points,
                         !.earnedPoints = @ + challenge.points]
    IN  IF challenge.isCompleted
        THEN [a EXCEPT !.completedChallenges = @ + 1]
        ELSE IF now < challenge.releaseTime
        THEN [a EXCEPT !.upcomingChallenges = @ + 1]
        ELSE IF now > challenge.endTime /\ challenge.type # "PERMANENT"
        THEN [a EXCEPT !.expiredChallenges = @ + 1]
        ELSE [a EXCEPT !.activeChallenges = @ + 1]

NoStats ==
    [totalChallenges |-> 0, completedChallenges |-> 0, totalPoints |-> 0,
     earnedPoints |-> 0, activeChallenges |-> 0, upcomingChallenges |-> 0,
     expiredChallenges |-> 0]

StatsStep(acc, challenge, now) ==
    LET a == [acc EXCEPT !.totalPoints = @ + challenge.points]
    IN  IF challenge.isCompleted
        THEN [a EXCEPT !.completedChallenges = @ + 1,
                       !.earnedPoints = @ + challenge.points]
        ELSE IF now < challenge.releaseTime
        THEN [a EXCEPT !.upcomingChallenges = @ + 1]
        ELSE IF now > challenge.endTime /\ challenge.type # "PERMANENT"
        THEN [a EXCEPT !.expiredChallenges = @ + 1]
        ELSE [a EXCEPT !.activeChallenges = @ + 1]

RECURSIVE StatsFold(_, _, _, _)
StatsFold(acc, challenges, i, now) ==
    IF i > Len(challenges) THEN acc
    ELSE StatsFold(StatsStep(acc, challenges[i], now), challenges, i + 1, now)

stats(details, now) ==
    IF ~details.loaded THEN NoStats
    ELSE StatsFold([NoStats EXCEPT !.totalChallenges = Len(details.challenges)],
                   details.challenges, 1, now)

(***************************************************************************)
(* The auto-refresh effect: nextUpdate over the challenges, then the       *)
(* timeout it arms.                                                        *)
(***************************************************************************)
NextUpdateStep(nextUpdate, challenge, nowMs) ==
    IF challenge.releaseTime > nowMs
    THEN MathMin(nextUpdate, Num(challenge.releaseTime - nowMs))
    ELSE IF challenge.endTime > nowMs
    THEN MathMin(nextUpdate, Num(challenge.endTime - nowMs))
    ELSE nextUpdate

RECURSIVE NextUpdateFold(_, _, _, _)
NextUpdateFold(nextUpdate, challenges, i, nowMs) ==
    IF i > Len(challenges) THEN nextUpdate
    ELSE NextUpdateFold(NextUpdateStep(nextUpdate, challenges[i], nowMs),
                        challenges, i + 1, nowMs)

NextUpdate(challenges, nowMs) == NextUpdateFold(Infinity, challenges, 1, nowMs)

\* variant: the timeout is armed for the boundary itself
RefreshDelayNoMargin(nextUpdate) == nextUpdate.v

\* setTimeout(fetchEventDetails, nextUpdate + 1000)
RefreshDelay(nextUpdate) == nextUpdate.v + 1000

\* variant: the timeout is armed without looking at nextUpdate; a delay of
\* Infinity makes the host fire it at once
AutoRefreshEffectUnguarded(details, nowMs) ==
    IF ~details.loaded THEN NoTimer
    ELSE LET nextUpdate == NextUpdate(details.challenges, nowMs)
             delay == IF nextUpdate.inf THEN 0 ELSE RefreshDelay(nextUpdate)
         IN  [set |-> TRUE, delay |-> delay, deadline |-> nowMs + delay]

\* the delay the host gives the timeout: setTimeout converts its argument
\* to a signed 32-bit integer and takes a negative result as 0.  Durations
\* of this model stay below 2^31, so an argument above 2^31 - 1 is below
\* 2^32 and wraps to a negative number.
TimeoutDelay(nextUpdate) ==
    IF nextUpdate.v > 2147483647 - 1000 THEN 0 ELSE RefreshDelay(nextUpdate)

\* the timer the effect leaves armed after running at nowMs on `details`
AutoRefreshEffect(details, nowMs) ==
    IF ~details.loaded THEN NoTimer
    ELSE LET nextUpdate == NextUpdate(details.challenges, nowMs)
         IN  IF ~nextUpdate.inf /\ nextUpdate.v > 0
             THEN [set |-> TRUE, delay |-> TimeoutDelay(nextUpdate),
                   deadline |-> nowMs + TimeoutDelay(nextUpdate)]
             ELSE NoTimer

(***************************************************************************)
(* The window's timers.  host.timeouts holds the timeouts that will still  *)
(* fire, in the order they were armed; host.interval tells whether the     *)
(* 1 s interval of the tick effect is running.                             *)
(***************************************************************************)
RemoveAt(seq, i) ==
    [j \in 1..(Len(seq) - 1) |-> IF j < i THEN seq[j] ELSE seq[j + 1]]

\* variant: the effect returns no cleanup, the earlier timeout stays armed
clearTimeoutMissing(timeouts, handle) == timeouts

\* return () => clearTimeout(timeout): the host forgets the timeout the
\* handle names, if it has not fired yet
clearTimeout(timeouts, handle) ==
    LET at == {i \in DOMAIN timeouts : timeouts[i] = handle}
    IN  IF ~handle.set \/ at = {} THEN timeouts
        ELSE RemoveAt(timeouts, CHOOSE i \in at : \A j \in at : i <= j)

\* variant: the host arms nothing
setTimeoutDropped(timeouts, armed) == timeouts

\* const timeout = setTimeout(...): nothing is armed when the effect's
\* guard fails
setTimeout(timeouts, armed) ==
    IF armed.set THEN Append(timeouts, armed) ELSE timeouts

\* the effect runs again for new eventDetails: the cleanup of its last
\* run, then the new timeout
RerunAutoRefresh(h, handle, armed) ==
    [h EXCEPT !.timeouts = setTimeout(clearTimeout(h.timeouts, handle), armed)]

\* variant: the tick effect returns no cleanup
clearIntervalMissing(h) == h

\* const timer = setInterval(..., 1000) and return () => clearInterval(timer)
setInterval(h) == [h EXCEPT !.interval = TRUE]
clearInterval(h) == [h EXCEPT !.interval = FALSE]

(***************************************************************************)
(* getFilteredChallenges: filter by status, then Array.prototype.sort      *)
(* (stable) by status priority and release time.  The search term stays    *)
(* empty in this model, so the search filter keeps every challenge.        *)
(***************************************************************************)
Priority(status) ==
    CASE status = "active" -> 0
      [] status = "upcoming" -> 1
      [] status = "completed" -> 2
      [] status = "expired" -> 3
      [] OTHER -> 4

\* the comparator: negative when a sorts before b
Compare(a, b, now) ==
    LET priorityA == Priority(getChallengeStatus(a, now).status)
        priorityB == Priority(getChallengeStatus(b, now).status)
    IN  IF priorityA # priorityB THEN priorityA - priorityB
        ELSE a.releaseTime - b.releaseTime

\* insert x after every element it does not sort strictly before (stable)
RECURSIVE InsertSorted(_, _, _)
InsertSorted(x, sorted, now) ==
    IF sorted = <<>> THEN <<x>>
    ELSE IF Compare(x, Head(sorted), now) < 0 THEN <<x>> \o sorted
    ELSE <<Head(sorted)>> \o InsertSorted(x, Tail(sorted), now)

RECURSIVE SortChallenges(_, _)
SortChallenges(challenges, now) ==
    IF challenges = <<>> THEN <<>>
    ELSE InsertSorted(challenges[Len(challenges)],
                      SortChallenges(SubSeq(challenges, 1, Len(challenges) - 1), now),
                      now)

FilterByStatus(challenges, f, now) ==
    SelectSeq(challenges, LAMBDA c : getChallengeStatus(c, now).status = f)

\* strings of the search: sequences of characters
toLowerCase(s) == [i \in DOMAIN s |-> IF s[i] = "A" THEN "a" ELSE s[i]]

includes(s, t) ==
    \E k \in 0..(Len(s) - Len(t)) : SubSeq(s, k + 1, k + Len(t)) = t

RECURSIVE trim(_)
trim(s) ==
    IF s = <<>> THEN s
    ELSE IF Head(s) = " " THEN trim(Tail(s))
    ELSE IF s[Len(s)] = " " THEN trim(SubSeq(s, 1, Len(s) - 1))
    ELSE s

\* variant: only the game's name is searched
MatchesSearchGameOnly(challenge, term) ==
    includes(toLowerCase(challenge.game.name), toLowerCase(term))

\* the test of the search filter
MatchesSearch(challenge, term) ==
    \/ includes(toLowerCase(challenge.game.name), toLowerCase(term))
    \/ \E i \in DOMAIN challenge.categories :
          includes(toLowerCase(challenge.categories[i].name), toLowerCase(term))

FilterBySearch(challenges, term) ==
    IF trim(term) # <<>>
    THEN SelectSeq(challenges, LAMBDA c : MatchesSearch(c, term))
    ELSE challenges

getFilteredChallenges(details, f, term, now) ==
    IF ~details.loaded THEN <<>>
    ELSE IF f # "all"
    THEN SortChallenges(FilterBySearch(FilterByStatus(details.challenges, f, now), term), now)
    ELSE SortChallenges(FilterBySearch(details.challenges, term), now)

\* getFilterCounts: counts.all++ and counts[status]++ for every challenge
NoCounts == [all |-> 0, active |-> 0, upcoming |-> 0, completed |-> 0, expired |-> 0]

RECURSIVE CountsFold(_, _, _, _)
CountsFold(counts, challenges, i, now) ==
    IF i > Len(challenges) THEN counts
    ELSE LET status == getChallengeStatus(challenges[i], now).status
         IN  CountsFold([counts EXCEPT !.all = @ + 1, ![status] = @ + 1],
                        challenges, i + 1, now)

getFilterCounts(details, now) ==
    IF ~details.loaded THEN NoCounts
    ELSE CountsFold(NoCounts, details.challenges, 1, now)

\* which screen the render returns
Screen(ld, er, details) ==
    IF ld THEN "loading"
    ELSE IF er # NoError THEN "error"
    ELSE IF ~details.loaded THEN "empty"
    ELSE "details"

\* eventDetails after the render that follows a state change: with filter
\* 'all' and a blank search term the sort runs on the state's own array,
\* in place
RenderWith(details, ld, er, f, term, now) ==
    IF Screen(ld, er, details) = "details" /\ f = "all" /\ trim(term) = <<>>
    THEN [details EXCEPT !.challenges = SortChallenges(details.challenges, now)]
    ELSE details

AfterRender(details, ld, er, f, now) == RenderWith(details, ld, er, f, searchTerm, now)

(***************************************************************************)
(* Inputs: the challenges the data provider may hold.                      *)
(***************************************************************************)
Details(challenges) == [loaded |-> TRUE, challenges |-> challenges]

Challenge(i, type, completed, release, end) ==
    [id |-> i, points |-> 10, type |-> type, isCompleted |-> completed,
     releaseTime |-> release, endTime |-> end,
     game |-> [name |-> <<"A", "b">>], categories |-> <<>>]

\* durations in ms: days, hours, minutes, seconds and a fraction of a second
SampledDurations ==
    { ((d * 86400 + h * 3600 + m * 60 + s) * 1000) + f :
        d \in 0..MaxDays, h \in 0..MaxHours, m \in {0, 9, 10, 30},
        s \in {0, 45}, f \in {0, 1} }

SampledOffsets == SampledDurations \cup {-1, -1000, -3600000}

SampledChallenges ==
    { Challenge(1, type, completed, EpochMs + r, EpochMs + e) :
        type \in ChallengeTypes, completed \in BOOLEAN,
        r \in SampledOffsets, e \in SampledOffsets }

\* release and end offsets of the challenges of the view's runs
Windows == {<<-1000, 1000>>, <<1000, 2000>>}

\* a window the data provider should not send: it ends before it opens
Inverted == <<2000, 1000>>

\* type and isCompleted of the challenges of the view's runs
Kinds == {<<"TEMPORARY", FALSE>>, <<"PERMANENT", FALSE>>, <<"TEMPORARY", TRUE>>}

WindowChallenges ==
    { Challenge(0, k[1], k[2], EpochMs + w[1], EpochMs + w[2]) :
        k \in Kinds, w \in Windows }
    \cup { Challenge(0, "TEMPORARY", FALSE, EpochMs + Inverted[1], EpochMs + Inverted[2]) }

Numbered(challenges) ==
    [i \in DOMAIN challenges |-> [challenges[i] EXCEPT !.id = i]]

ChallengeLists ==
    { Numbered(l) : l \in UNION { [1..n -> WindowChallenges] : n \in 0..MaxChallenges } }

FreshEntry(data, now) ==
    [present |-> TRUE, parses |-> TRUE, data |-> data, timestamp |-> now - 1000]
StaleEntry(data, now) ==
    [present |-> TRUE, parses |-> TRUE, data |-> data, timestamp |-> now - 300000]
Unparseable ==
    [present |-> TRUE, parses |-> FALSE, data |-> NoDetails, timestamp |-> 0]

\* the release runs: a challenge that is not completed and opens 10 s after
\* construction, alone or next to one whose window lies behind
ReleaseChallenges ==
    { Challenge(0, type, FALSE, EpochMs + 10000, EpochMs + 13000) :
        type \in ChallengeTypes }

BehindChallenge == Challenge(0, "TEMPORARY", FALSE, EpochMs - 2000, EpochMs - 1000)

\* the far runs: the view is constructed at instant 0 and a challenge opens
\* 2^31 - 1 - 1000 ms later (the longest timeout the host can hold), one
\* millisecond after that, or at the last instant a 32-bit integer holds
FarChallenges ==
    { Challenge(0, "TEMPORARY", FALSE, r, 2147483647) :
        r \in {2147482647, 2147482648, 2147483647} }

FarLists ==
    { Numbered(l) : l \in UNION { [1..n -> FarChallenges] : n \in 1..2 } }

\* the stats runs: challenges worth nothing, 10 or 25 points
PointsChallenges ==
    { [c EXCEPT !.points = p] : c \in WindowChallenges, p \in {0, 10, 25} }

StatsLists ==
    { Numbered(l) : l \in UNION { [1..n -> PointsChallenges] : n \in 0..MaxChallenges } }

\* the search runs: challenges of every status, two of them upcoming, of a
\* game named "Ab" or "b", without category or in the category "A"
Named(c, game, categories) ==
    [c EXCEPT !.game = [name |-> game], !.categories = categories]

SearchChallenges ==
    { Named(Challenge(0, "TEMPORARY", FALSE, EpochMs - 1000, EpochMs + 1000),
            <<"A", "b">>, <<>>),
      Named(Challenge(0, "TEMPORARY", FALSE, EpochMs - 1000, EpochMs + 1000),
            <<"b">>, <<>>),
      Named(Challenge(0, "TEMPORARY", FALSE, EpochMs + 1000, EpochMs + 2000),
            <<"b">>, <<[name |-> <<"A">>]>>),
      Named(Challenge(0, "TEMPORARY", FALSE, EpochMs + 500, EpochMs + 2000),
            <<"A", "b">>, <<>>),
      Named(Challenge(0, "TEMPORARY", TRUE, EpochMs - 1000, EpochMs + 1000),
            <<"b">>, <<>>),
      Named(Challenge(0, "TEMPORARY", FALSE, EpochMs - 2000, EpochMs - 1000),
            <<"b">>, <<[name |-> <<"A">>]>>) }

SearchLists ==
    { Numbered(l) : l \in UNION { [1..n -> SearchChallenges] : n \in 0..MaxChallenges } }

\* what can be typed into the search input
SearchTerms ==
    UNION { [1..n -> {"A", "a", " "}] : n \in 0..MaxTerm }

\* the race runs: one challenge that is not completed yet
RaceLists ==
    { Numbered(<<c>>) : c \in { w \in WindowChallenges : ~w.isCompleted } }

ReleaseLists ==
    { Numbered(l) : l \in UNION { {<<c>>, <<c, BehindChallenge>>, <<BehindChallenge, c>>} :
                                     c \in ReleaseChallenges } }

(***************************************************************************)
(* The state after construction: the useState initial values.              *)
(***************************************************************************)
ConstructedAt(t) ==
    /\ eventDetails = NoDetails
    /\ loading = TRUE
    /\ error = NoError
    /\ filter = "active"
    /\ currentTime = t
    /\ clock = t
    /\ timer = NoTimer
    /\ host = NoHost
    /\ inflight = <<>>
    /\ mounted = "constructed"
    /\ eventsPage = NoPage
    /\ admin = NoAdmin
    /\ searchTerm = <<>>

Constructed == ConstructedAt(EpochMs)

Init ==
    /\ Constructed
    /\ server \in ChallengeLists
    /\ cache \in {NoCache, Unparseable,
                  FreshEntry(Details(server), EpochMs),
                  StaleEntry(Details(server), EpochMs)}

\* one challenge with sampled durations, held by a fresh cache entry
InitEngine ==
    /\ Constructed
    /\ server \in { <<c>> : c \in SampledChallenges }
    /\ cache = FreshEntry(Details(server), EpochMs)

(***************************************************************************)
(* fetchEventDetails up to its await, and the two ways it resumes.         *)
(***************************************************************************)
CacheFresh == cache.present /\ cache.parses /\ clock - cache.timestamp < 300000

\* setLoading(true); fetch(...).  The data provider reads the event when
\* the request is issued; the response carries that reading.  setLoading
\* does nothing once the view is unmounted.
IssueFetch(kind) ==
    /\ Len(inflight) < MaxInflight
    /\ inflight' = Append(inflight, [kind |-> kind, data |-> Details(server)])
    /\ loading' = IF mounted = "unmounted" THEN loading ELSE TRUE

DropRequest(i) ==
    [j \in 1..(Len(inflight) - 1) |-> IF j < i THEN inflight[j] ELSE inflight[j + 1]]

\* setEventDetails(data) from the cache; the auto-refresh effect runs again
LoadFromCache(h) ==
    /\ CacheFresh
    /\ loading' = FALSE
    /\ timer' = AutoRefreshEffect(cache.data, clock)
    /\ host' = RerunAutoRefresh(h, timer, timer')
    /\ eventDetails' = AfterRender(cache.data, FALSE, error', filter, currentTime)
    /\ UNCHANGED <<filter, currentTime, clock, inflight, cache, server>>

\* the mount effects: interval, cache load, auto-refresh
MountCacheHit ==
    /\ mounted = "constructed"
    /\ mounted' = "mounted"
    /\ error' = error
    /\ LoadFromCache(setInterval(host))
    /\ UNCHANGED <<eventsPage, admin, searchTerm>>

MountCacheMiss ==
    /\ mounted = "constructed"
    /\ ~CacheFresh
    /\ mounted' = "mounted"
    /\ cache' = IF cache.present /\ ~cache.parses THEN NoCache ELSE cache
    /\ host' = setInterval(host)
    /\ IssueFetch("mount")
    /\ UNCHANGED <<eventDetails, error, filter, currentTime, clock, timer, server>>
    /\ UNCHANGED <<eventsPage, admin, searchTerm>>

\* variant: a response is applied only if no later request was issued;
\* an older one is dropped
FetchOkLatestOnly(i) ==
    /\ i \in DOMAIN inflight
    /\ inflight' = DropRequest(i)
    /\ IF i = Len(inflight)
       THEN /\ cache' = [present |-> TRUE, parses |-> TRUE,
                         data |-> inflight[i].data, timestamp |-> clock]
            /\ IF mounted = "mounted"
               THEN /\ loading' = FALSE
                    /\ timer' = AutoRefreshEffect(inflight[i].data, clock)
                    /\ host' = RerunAutoRefresh(host, timer, timer')
                    /\ eventDetails' =
                         AfterRender(inflight[i].data, FALSE, error, filter, currentTime)
               ELSE UNCHANGED <<loading, timer, host, eventDetails>>
       ELSE UNCHANGED <<cache, loading, timer, host, eventDetails>>
    /\ UNCHANGED <<error, filter, currentTime, clock, mounted, server>>
    /\ UNCHANGED <<eventsPage, admin, searchTerm>>

\* response.ok: setEventDetails, localStorage.setItem, setLoading(false)
FetchOk(i) ==
    /\ i \in DOMAIN inflight
    /\ inflight' = DropRequest(i)
    /\ cache' = [present |-> TRUE, parses |-> TRUE, data |-> inflight[i].data,
                 timestamp |-> clock]
    /\ IF mounted = "mounted"
       THEN /\ loading' = FALSE
            /\ timer' = AutoRefreshEffect(inflight[i].data, clock)
            /\ host' = RerunAutoRefresh(host, timer, timer')
            /\ eventDetails' =
                 AfterRender(inflight[i].data, FALSE, error, filter, currentTime)
       ELSE UNCHANGED <<loading, timer, host, eventDetails>>
    /\ UNCHANGED <<error, filter, currentTime, clock, mounted, server>>
    /\ UNCHANGED <<eventsPage, admin, searchTerm>>

\* !response.ok or a network error: setError, setLoading(false)
FetchFail(i) ==
    /\ i \in DOMAIN inflight
    /\ inflight' = DropRequest(i)
    /\ IF mounted = "mounted"
       THEN /\ loading' = FALSE
            /\ error' = "Erreur"
       ELSE UNCHANGED <<loading, error>>
    /\ UNCHANGED <<eventDetails, filter, currentTime, clock, timer, host, cache,
                   mounted, server>>
    /\ UNCHANGED <<eventsPage, admin, searchTerm>>

\* the data provider's copy of the event changes between two requests:
\* challenge i is completed
ServerCompletes(i) ==
    /\ i \in DOMAIN server
    /\ ~server[i].isCompleted
    /\ server' = [server EXCEPT ![i].isCompleted = TRUE]
    /\ UNCHANGED <<eventDetails, loading, error, filter, currentTime, clock,
                   timer, host, inflight, cache, mounted>>
    /\ UNCHANGED <<eventsPage, admin, searchTerm>>

(***************************************************************************)
(* Timers.                                                                 *)
(***************************************************************************)
TickDue == host.interval /\ clock >= currentTime + 1000
Due(i) == i \in DOMAIN host.timeouts /\ clock >= host.timeouts[i].deadline
TimerDue == \E i \in DOMAIN host.timeouts : Due(i)

\* time passes, up to the next callback that is due
Advance ==
    /\ mounted # "constructed"
    /\ ~TickDue
    /\ ~TimerDue
    /\ clock + 500 <= EpochMs + MaxSteps * 500
    /\ clock' = clock + 500
    /\ UNCHANGED <<eventDetails, loading, error, filter, currentTime, timer,
                   host, inflight, cache, mounted, server>>
    /\ UNCHANGED <<eventsPage, admin, searchTerm>>

\* the instants at which a scheduled callback comes due
DueInstants ==
    (IF host.interval THEN {currentTime + 1000} ELSE {})
    \cup { host.timeouts[i].deadline : i \in DOMAIN host.timeouts }

\* time passes until the next scheduled callback is due
AdvanceToDue ==
    /\ ~TickDue
    /\ ~TimerDue
    /\ \E t \in DueInstants :
         /\ \A u \in DueInstants : t <= u
         /\ t <= EpochMs + MaxSeconds * 1000
         /\ clock' = t
    /\ UNCHANGED <<eventDetails, loading, error, filter, currentTime, timer,
                   host, inflight, cache, mounted, server>>
    /\ UNCHANGED <<eventsPage, admin, searchTerm>>

\* setInterval callback: setCurrentTime(new Date())
Tick ==
    /\ TickDue
    /\ currentTime' = clock
    /\ eventDetails' = AfterRender(eventDetails, loading, error, filter, clock)
    /\ UNCHANGED <<loading, error, filter, clock, timer, host, inflight, cache,
                   mounted, server>>
    /\ UNCHANGED <<eventsPage, admin, searchTerm>>

\* the setTimeout callback of the auto-refresh effect
BoundaryFetch ==
    \E i \in DOMAIN host.timeouts :
        /\ Due(i)
        /\ host' = [host EXCEPT !.timeouts = RemoveAt(host.timeouts, i)]
        /\ timer' = IF timer = host.timeouts[i] THEN NoTimer ELSE timer
        /\ IssueFetch("boundary")
        /\ UNCHANGED <<eventDetails, error, filter, currentTime, clock, cache,
                       mounted, server>>
        /\ UNCHANGED <<eventsPage, admin, searchTerm>>

(***************************************************************************)
(* The events list views: the events summary (cachedEventsSummary, kept    *)
(* 30 minutes) and the event dates (cachedEvents, kept one hour).  One     *)
(* record holds the state of the view on screen.                           *)
(***************************************************************************)
\* variant: the two views' times to live swapped
EventsTTLSwapped(view) == IF view = "summary" THEN 3600000 ELSE 1800000

\* Date.now() - timestamp < 1800000, < 3600000
EventsTTL(view) == IF view = "summary" THEN 1800000 ELSE 3600000

EventsCacheFresh ==
    /\ eventsPage.cache.present
    /\ eventsPage.cache.parses
    /\ clock - eventsPage.cache.timestamp < EventsTTL(eventsPage.view)

\* what the data provider lists, what an older entry holds, and the body
\* of a response that is not OK
EventsData == <<"event">>
CachedEvents == <<"cached event">>
ErrorBody == <<"error body">>

ListEntry(data, timestamp) ==
    [present |-> TRUE, parses |-> TRUE, data |-> data, timestamp |-> timestamp]
UnparseableList ==
    [present |-> TRUE, parses |-> FALSE, data |-> <<>>, timestamp |-> 0]

\* the useState initial values of a list view
ConstructedPage(view, entry) ==
    [view |-> view, events |-> <<>>, loading |-> TRUE, error |-> NoError,
     requests |-> 0, cache |-> entry, mounted |-> "constructed"]

\* the load effect finds a usable entry: setEvents(data), setLoading(false)
EventsMountCacheHit ==
    /\ eventsPage.mounted = "constructed"
    /\ EventsCacheFresh
    /\ eventsPage' = [eventsPage EXCEPT !.mounted = "mounted",
                                        !.events = eventsPage.cache.data,
                                        !.loading = FALSE]
    /\ UNCHANGED <<detailVars, admin>>

\* the load effect fetches; only the summary view removes an entry that
\* does not parse
EventsMountCacheMiss ==
    /\ eventsPage.mounted = "constructed"
    /\ ~EventsCacheFresh
    /\ eventsPage' =
         [eventsPage EXCEPT !.mounted = "mounted",
                            !.requests = @ + 1,
                            !.cache = IF eventsPage.view = "summary" /\ @.present /\ ~@.parses
                                      THEN NoListCache ELSE @]
    /\ UNCHANGED <<detailVars, admin>>

\* setEvents(data), localStorage.setItem, setLoading(false)
Stored(page, data) ==
    [page EXCEPT !.requests = @ - 1,
                 !.cache = ListEntry(data, clock),
                 !.events = IF page.mounted = "mounted" THEN data ELSE @,
                 !.loading = IF page.mounted = "mounted" THEN FALSE ELSE @]

EventsFetchOk ==
    /\ eventsPage.requests > 0
    /\ eventsPage' = Stored(eventsPage, EventsData)
    /\ UNCHANGED <<detailVars, admin>>

\* a network error, a body that is not JSON or, in the event dates view, a
\* response that is not OK: setError, setLoading(false)
EventsFetchFail ==
    /\ eventsPage.requests > 0
    /\ eventsPage' =
         [eventsPage EXCEPT !.requests = @ - 1,
                            !.error = IF eventsPage.mounted = "mounted" THEN "Erreur" ELSE @,
                            !.loading = IF eventsPage.mounted = "mounted" THEN FALSE ELSE @]
    /\ UNCHANGED <<detailVars, admin>>

\* fetchEventsSummary only logs a response that is not OK and goes on to
\* response.json(): a JSON body is set and stored like data
SummaryNotOkStored ==
    /\ eventsPage.view = "summary"
    /\ eventsPage.requests > 0
    /\ eventsPage' = Stored(eventsPage, ErrorBody)
    /\ UNCHANGED <<detailVars, admin>>

\* the retry button: setError(null), setLoading(true), fetch
EventsRetry ==
    /\ eventsPage.mounted = "mounted"
    /\ ~eventsPage.loading
    /\ eventsPage.error # NoError
    /\ eventsPage.requests < MaxInflight
    /\ eventsPage' = [eventsPage EXCEPT !.error = NoError, !.loading = TRUE,
                                        !.requests = @ + 1]
    /\ UNCHANGED <<detailVars, admin>>

\* the refresh button of the summary view: removeItem, setLoading(true),
\* refreshKey + 1, so the load effect runs again and fetches
SummaryRefresh ==
    /\ eventsPage.view = "summary"
    /\ eventsPage.mounted = "mounted"
    /\ ~eventsPage.loading
    /\ eventsPage.error = NoError
    /\ eventsPage.requests < MaxInflight
    /\ eventsPage' = [eventsPage EXCEPT !.cache = NoListCache, !.loading = TRUE,
                                        !.requests = @ + 1]
    /\ UNCHANGED <<detailVars, admin>>

EventsUnmount ==
    /\ eventsPage.mounted = "mounted"
    /\ eventsPage' = [eventsPage EXCEPT !.mounted = "unmounted"]
    /\ UNCHANGED <<detailVars, admin>>

(***************************************************************************)
(* The badges and the filters of the events summary view.                  *)
(***************************************************************************)
EventFilters == {"all", "active", "upcoming", "past"}

\* getEventStatus: the text of the badge
getEventStatus(event, now) ==
    IF event.isActive THEN "En cours"
    ELSE IF event.startDate > now THEN "A venir"
    ELSE "Termine"

\* the test of filterEvents' switch
InEventFilter(event, currentFilter, now) ==
    IF currentFilter = "active" THEN event.isActive
    ELSE IF currentFilter = "upcoming" THEN event.startDate > now
    ELSE IF currentFilter = "past" THEN event.endDate < now
    ELSE TRUE

\* filterEvents with an empty search term
filterEvents(eventList, currentFilter, now) ==
    IF currentFilter # "all"
    THEN SelectSeq(eventList, LAMBDA event : InEventFilter(event, currentFilter, now))
    ELSE eventList

\* getFilterCounts of the summary view
getEventFilterCounts(events, now) ==
    [all |-> Len(events),
     active |-> Len(SelectSeq(events, LAMBDA e : e.isActive)),
     upcoming |-> Len(SelectSeq(events, LAMBDA e : e.startDate > now)),
     past |-> Len(SelectSeq(events, LAMBDA e : e.endDate < now))]

\* events flagged active or not, running, ahead or over at the start
EventSummaries ==
    { [id |-> 0, isActive |-> active, startDate |-> EpochMs + w[1],
       endDate |-> EpochMs + w[2]] :
        active \in BOOLEAN, w \in {<<-1000, 1000>>, <<1000, 2000>>, <<-2000, -1000>>} }

SummaryLists ==
    { Numbered(l) : l \in UNION { [1..n -> EventSummaries] : n \in 0..MaxEvents } }

\* the summary view with its events loaded and the effect on
\* [events, filter, searchTerm] run
SummaryShown(events, now) ==
    [view |-> "summary", events |-> events, loading |-> FALSE, error |-> NoError,
     requests |-> 0, cache |-> ListEntry(events, now), mounted |-> "mounted",
     filter |-> "upcoming", filteredEvents |-> filterEvents(events, "upcoming", now)]

\* a filter button: setFilter(key), then the effect: setFilteredEvents
SetEventsFilter(key) ==
    /\ eventsPage.mounted = "mounted"
    /\ ~eventsPage.loading
    /\ eventsPage.error = NoError
    /\ key # eventsPage.filter
    /\ eventsPage' = [eventsPage EXCEPT
                        !.filter = key,
                        !.filteredEvents = filterEvents(eventsPage.events, key, clock)]
    /\ UNCHANGED <<detailVars, admin>>

(***************************************************************************)
(* The challenge admin form (ChallengeManagement).                         *)
(***************************************************************************)
\* !isNaN(new Date(s).getTime())
IsDate(s) == s.form = "date"

\* !s for a string
IsEmpty(s) == s.form = "empty"

\* date-fns differenceInHours: whole hours, truncated toward zero
differenceInHours(later, earlier) == TruncDiv(later.ms - earlier.ms, 3600000)

\* addHours(date, amount).toISOString()
addHours(date, amount) == DateString(date.ms + amount * 3600000)

\* the effect on [editingChallenge]: it runs after every
\* setEditingChallenge that stores another object
EditingEffect(a) ==
    IF a.editingChallenge # <<>> /\ a.editingChallenge[1].event # NoEvent
    THEN LET c == a.editingChallenge[1]
         IN  [a EXCEPT
                !.publishFromStart = /\ IsDate(c.releaseTime)
                                     /\ IsDate(c.event.startDate)
                                     /\ c.releaseTime.ms = c.event.startDate.ms,
                !.duration = IF c.type = "TEMPORARY"
                             THEN differenceInHours(c.endTime, c.releaseTime)
                             ELSE @]
    ELSE [a EXCEPT !.publishFromStart = TRUE, !.duration = 0]

\* the events and games the selects offer, and the stored challenges
EventOne == [id |-> 1, startDate |-> DateString(EpochMs),
             endDate |-> DateString(EpochMs + 7200000)]
EventTwo == [id |-> 2, startDate |-> DateString(EpochMs + 1800000),
             endDate |-> DateString(EpochMs + 9000000)]
\* an event the data provider holds without a start date
EventUndated == [id |-> 3, startDate |-> NoDate,
                 endDate |-> DateString(EpochMs + 7200000)]
AdminEvents == {EventTwo}
AdminGames == {"g1"}

StoredChallenge(type, release, length, event) ==
    [id |-> 1, title |-> "Defi", description |-> "", points |-> 10, type |-> type,
     reward |-> "REDBULL", releaseTime |-> DateString(release),
     endTime |-> DateString(release + length), game |-> "g1", event |-> event,
     categories |-> <<>>]

\* released at the event's start or half an hour later; lasting an hour,
\* an hour and a half, or to the end of the event
StoredChallenges ==
    { StoredChallenge("TEMPORARY", EpochMs, 3600000, EventOne),
      StoredChallenge("TEMPORARY", EpochMs, 5400000, EventOne),
      StoredChallenge("TEMPORARY", EpochMs + 1800000, 3600000, EventOne),
      StoredChallenge("PERMANENT", EpochMs, 7200000, EventOne),
      StoredChallenge("RACE", EpochMs, 7200000, NoEvent),
      StoredChallenge("TEMPORARY", EpochMs, 3600000, EventUndated),
      StoredChallenge("PERMANENT", EpochMs, 7200000, EventUndated) }

AdminLists == {<<>>} \cup { <<c>> : c \in StoredChallenges }

\* what the inputs of the form can be given
FieldValues ==
    [title |-> {"Nouveau"}, description |-> {"texte"}, points |-> {20},
     type |-> ChallengeTypes, reward |-> {"PIZZA"},
     releaseTime |-> {DateString(EpochMs + 1800000)},
     game |-> AdminGames \cup {NoGame}, event |-> AdminEvents \cup {NoEvent},
     categories |-> {<<"c1">>}]

\* the render: loading screen, error screen or the form and the list
AdminScreen(a) ==
    IF a.loading THEN "loading" ELSE IF a.error # NoError THEN "error" ELSE "form"

FormOnScreen == admin.mounted /\ AdminScreen(admin) = "form"

currentChallenge(a) ==
    IF a.editingChallenge # <<>> THEN a.editingChallenge[1] ELSE a.newChallenge

isFormValid(a) ==
    /\ currentChallenge(a).title # ""
    /\ currentChallenge(a).game # NoGame
    /\ currentChallenge(a).event # NoEvent

\* fetchData: setLoading(true), setError(null), four GETs
IssueFetchData(a) ==
    [a EXCEPT !.loading = TRUE, !.error = NoError, !.fetching = @ + 1]

\* the mount effect
AdminMount ==
    /\ ~admin.mounted
    /\ admin.server \in AdminLists
    /\ admin' = IssueFetchData([admin EXCEPT !.mounted = TRUE])
    /\ UNCHANGED viewVars

\* the four responses are OK: setChallenges, ..., setLoading(false)
FetchDataOk ==
    /\ admin.fetching > 0
    /\ admin' = [admin EXCEPT !.fetching = @ - 1,
                              !.challenges = admin.server,
                              !.listObject = FALSE,
                              !.loading = FALSE]
    /\ UNCHANGED viewVars

\* a response is not OK: setError, setLoading(false)
FetchDataFail ==
    /\ admin.fetching > 0
    /\ admin' = [admin EXCEPT !.fetching = @ - 1,
                              !.error = "Erreur lors du chargement",
                              !.loading = FALSE]
    /\ UNCHANGED viewVars

\* the retry button of the error screen: setError(null), fetchData
AdminRetry ==
    /\ admin.mounted
    /\ AdminScreen(admin) = "error"
    /\ admin.fetching < MaxPending
    /\ admin' = IssueFetchData(admin)
    /\ UNCHANGED viewVars

\* an input of the form: setEditingChallenge({...editingChallenge, field})
\* while editing, else setNewChallenge({...newChallenge, field}); the date
\* input is rendered only when publishFromStart is off
SetField(field, value) ==
    /\ FormOnScreen
    /\ admin.edits < MaxEdits
    /\ field = "releaseTime" => ~admin.publishFromStart
    /\ admin' =
         LET a == [admin EXCEPT !.edits = @ + 1]
         IN  IF admin.editingChallenge # <<>>
             THEN EditingEffect([a EXCEPT !.editingChallenge[1][field] = value,
                                          !.listObject = FALSE])
             ELSE [a EXCEPT !.newChallenge[field] = value]
    /\ UNCHANGED viewVars

\* the checkbox: setPublishFromStart(e.target.checked)
SetPublishFromStart(checked) ==
    /\ FormOnScreen
    /\ admin.edits < MaxEdits
    /\ admin' = [admin EXCEPT !.edits = @ + 1, !.publishFromStart = checked]
    /\ UNCHANGED viewVars

\* the duration input, rendered for a TEMPORARY challenge
SetDuration(hours) ==
    /\ FormOnScreen
    /\ admin.edits < MaxEdits
    /\ currentChallenge(admin).type = "TEMPORARY"
    /\ admin' = [admin EXCEPT !.edits = @ + 1, !.duration = hours]
    /\ UNCHANGED viewVars

\* the edit button of a listed challenge: setEditingChallenge(challenge);
\* nothing happens when that very object is being edited already
OpenEdit(i) ==
    /\ FormOnScreen
    /\ i \in DOMAIN admin.challenges
    /\ ~(admin.listObject /\ admin.editingChallenge = <<admin.challenges[i]>>)
    /\ admin' = EditingEffect([admin EXCEPT
                                 !.editingChallenge = <<admin.challenges[i]>>,
                                 !.listObject = TRUE])
    /\ UNCHANGED viewVars

\* the cancel button
CancelEdit ==
    /\ FormOnScreen
    /\ admin.editingChallenge # <<>>
    /\ admin' = [admin EXCEPT !.editingChallenge = <<>>, !.listObject = FALSE,
                              !.publishFromStart = TRUE, !.duration = 0]
    /\ UNCHANGED viewVars

\* handleSaveChallenge up to the fetch: the times it computes
computedReleaseTime(a) ==
    IF a.publishFromStart
    THEN currentChallenge(a).event.startDate
    ELSE currentChallenge(a).releaseTime

computedEndTime(a) ==
    IF currentChallenge(a).type = "TEMPORARY"
    THEN addHours(computedReleaseTime(a), a.duration)
    ELSE currentChallenge(a).event.endDate

\* variant: no check at all
ValidationSkipped(a) == "ok"

\* the three throws before the fetch, in their order
Validation(a) ==
    IF currentChallenge(a).type = "TEMPORARY" /\ ~IsDate(computedReleaseTime(a))
    THEN "Date de publication invalide"
    ELSE IF \/ IsEmpty(computedReleaseTime(a))
            \/ IsEmpty(computedEndTime(a))
            \/ currentChallenge(a).event = NoEvent
    THEN "Veuillez selectionner un evenement valide"
    ELSE IF currentChallenge(a).game = NoGame
    THEN "Veuillez selectionner un jeu valide"
    ELSE "ok"

\* method, url and body of the request
SaveRequest(a) ==
    [method |-> IF a.editingChallenge # <<>> THEN "PUT" ELSE "POST",
     id |-> currentChallenge(a).id,
     body |-> [currentChallenge(a) EXCEPT !.releaseTime = computedReleaseTime(a),
                                          !.endTime = computedEndTime(a)]]

\* the save button, enabled while isFormValid: setError(null), then a
\* throw caught by setError, or the request
handleSaveChallenge ==
    /\ FormOnScreen
    /\ isFormValid(admin)
    /\ admin.edits < MaxEdits
    /\ Len(admin.saving) < MaxPending
    /\ admin' =
         IF Validation(admin) # "ok"
         THEN [admin EXCEPT !.edits = @ + 1, !.error = Validation(admin)]
         ELSE [admin EXCEPT !.edits = @ + 1, !.error = NoError,
                            !.saving = Append(@, SaveRequest(admin))]
    /\ UNCHANGED viewVars

\* the response is OK: the form is reset, then fetchData
SaveOk(i) ==
    /\ i \in DOMAIN admin.saving
    /\ admin.fetching < MaxPending
    /\ admin' = IssueFetchData([admin EXCEPT
                   !.saving = RemoveAt(@, i),
                   !.newChallenge = NewChallengeDefaults,
                   !.editingChallenge = <<>>,
                   !.listObject = FALSE,
                   !.publishFromStart = TRUE,
                   !.duration = 0])
    /\ UNCHANGED viewVars

\* the response is not OK: the throw is caught by setError
SaveNotOk(i) ==
    /\ i \in DOMAIN admin.saving
    /\ admin' = [admin EXCEPT !.saving = RemoveAt(@, i), !.error = "Erreur"]
    /\ UNCHANGED viewVars

(***************************************************************************)
(* The user.                                                               *)
(***************************************************************************)
OnScreen(s) == mounted = "mounted" /\ Screen(loading, error, eventDetails) = s

\* the refresh button: removeItem, refreshKey + 1, so the load effect fetches
ManualRefresh ==
    /\ OnScreen("details")
    /\ cache' = NoCache
    /\ IssueFetch("manual")
    /\ UNCHANGED <<eventDetails, error, filter, currentTime, clock, timer, host,
                   mounted, server>>
    /\ UNCHANGED <<eventsPage, admin, searchTerm>>

\* the retry button: setError(null), refreshKey + 1
RetryCacheHit ==
    /\ OnScreen("error")
    /\ error' = NoError
    /\ mounted' = mounted
    /\ LoadFromCache(host)
    /\ UNCHANGED <<eventsPage, admin, searchTerm>>

RetryFetch ==
    /\ OnScreen("error")
    /\ ~CacheFresh
    /\ error' = NoError
    /\ IssueFetch("retry")
    /\ UNCHANGED <<eventDetails, filter, currentTime, clock, timer, host, cache,
                   mounted, server>>
    /\ UNCHANGED <<eventsPage, admin, searchTerm>>

SetFilter(f) ==
    /\ OnScreen("details")
    /\ f # filter
    /\ filter' = f
    /\ eventDetails' = AfterRender(eventDetails, loading, error, f, currentTime)
    /\ UNCHANGED <<loading, error, currentTime, clock, timer, host, inflight,
                   cache, mounted, server>>
    /\ UNCHANGED <<eventsPage, admin, searchTerm>>

\* the search input: setSearchTerm(e.target.value)
SetSearchTerm(term) ==
    /\ OnScreen("details")
    /\ term # searchTerm
    /\ searchTerm' = term
    /\ eventDetails' = RenderWith(eventDetails, loading, error, filter, term, currentTime)
    /\ UNCHANGED <<loading, error, filter, currentTime, clock, timer, host, inflight,
                   cache, mounted, server>>
    /\ UNCHANGED <<eventsPage, admin>>

\* the effects' cleanups: clearInterval, clearTimeout
Unmount ==
    /\ mounted = "mounted"
    /\ mounted' = "unmounted"
    /\ timer' = NoTimer
    /\ host' = clearInterval([host EXCEPT !.timeouts = clearTimeout(@, timer)])
    /\ UNCHANGED <<eventDetails, loading, error, filter, currentTime, clock,
                   inflight, cache, server>>
    /\ UNCHANGED <<eventsPage, admin, searchTerm>>

Next ==
    \/ MountCacheHit
    \/ MountCacheMiss
    \/ \E i \in 1..MaxInflight : FetchOk(i)
    \/ \E i \in 1..MaxInflight : FetchFail(i)
    \/ Advance
    \/ Tick
    \/ BoundaryFetch
    \/ ManualRefresh
    \/ RetryCacheHit
    \/ RetryFetch
    \/ \E f \in Filters : SetFilter(f)
    \/ Unmount

Spec == Init /\ [][Next]_vars

\* the release runs: the same view, time passing from callback to callback
InitRelease ==
    /\ Constructed
    /\ server \in ReleaseLists
    /\ cache \in {NoCache, FreshEntry(Details(server), EpochMs)}

NextRelease ==
    \/ MountCacheHit
    \/ MountCacheMiss
    \/ \E i \in 1..MaxInflight : FetchOk(i)
    \/ \E i \in 1..MaxInflight : FetchFail(i)
    \/ AdvanceToDue
    \/ Tick
    \/ BoundaryFetch
    \/ ManualRefresh
    \/ RetryCacheHit
    \/ RetryFetch
    \/ \E f \in Filters : SetFilter(f)
    \/ Unmount

SpecRelease == InitRelease /\ [][NextRelease]_vars

\* the far runs: no time passes
InitFar ==
    /\ ConstructedAt(0)
    /\ server \in FarLists
    /\ cache \in {NoCache, FreshEntry(Details(server), 0)}

NextFar ==
    \/ MountCacheHit
    \/ MountCacheMiss
    \/ \E i \in 1..MaxInflight : FetchOk(i)
    \/ \E i \in 1..MaxInflight : FetchFail(i)
    \/ BoundaryFetch
    \/ ManualRefresh
    \/ RetryCacheHit
    \/ RetryFetch
    \/ \E f \in Filters : SetFilter(f)
    \/ Unmount

SpecFar == InitFar /\ [][NextFar]_vars

\* the race runs: the view while the data provider's copy changes
InitRace ==
    /\ Constructed
    /\ server \in RaceLists
    /\ cache \in {NoCache, FreshEntry(Details(server), EpochMs)}

NextRace ==
    \/ Next
    \/ \E i \in 1..MaxChallenges : ServerCompletes(i)

SpecRace == InitRace /\ [][NextRace]_vars

\* the cache runs: one of the three caching views is on screen, with an
\* entry of its own whose age is about its time to live
EntryAges == {1000, 299999, 300000, 1799999, 1800000, 3599999, 3600000}

\* the route shows the detail view; no list view exists
DetailOnScreen ==
    /\ Constructed
    /\ server \in RaceLists
    /\ cache \in {NoCache, Unparseable}
                \cup { [present |-> TRUE, parses |-> TRUE, data |-> Details(server),
                        timestamp |-> EpochMs - a] : a \in EntryAges }

\* the route shows a list view; the detail view is not on screen, its
\* variables keep their initial values
ListOnScreen ==
    /\ eventDetails = NoDetails
    /\ loading = TRUE
    /\ error = NoError
    /\ filter = "active"
    /\ currentTime = EpochMs
    /\ clock = EpochMs
    /\ timer = NoTimer
    /\ host = NoHost
    /\ inflight = <<>>
    /\ mounted = "unmounted"
    /\ server = <<>>
    /\ cache = NoCache
    /\ searchTerm = <<>>
    /\ admin = NoAdmin
    /\ eventsPage \in
         { ConstructedPage(v, c) :
             v \in {"summary", "dates"},
             c \in {NoListCache, UnparseableList}
                   \cup { ListEntry(CachedEvents, EpochMs - a) : a \in EntryAges } }

InitCache == DetailOnScreen \/ ListOnScreen

NextCache ==
    \/ Next
    \/ EventsMountCacheHit
    \/ EventsMountCacheMiss
    \/ EventsFetchOk
    \/ EventsFetchFail
    \/ SummaryNotOkStored
    \/ EventsRetry
    \/ SummaryRefresh
    \/ EventsUnmount

SpecCache == InitCache /\ [][NextCache]_vars

\* the search runs: the details on screen, the filter buttons and the
\* search input
InitSearch ==
    /\ Constructed
    /\ server \in SearchLists
    /\ cache = FreshEntry(Details(server), EpochMs)

NextSearch ==
    \/ MountCacheHit
    \/ \E f \in Filters : SetFilter(f)
    \/ \E term \in SearchTerms : SetSearchTerm(term)

SpecSearch == InitSearch /\ [][NextSearch]_vars

\* the summary runs: the events summary view with its events loaded
InitSummary ==
    /\ eventDetails = NoDetails
    /\ loading = TRUE
    /\ error = NoError
    /\ filter = "active"
    /\ currentTime = EpochMs
    /\ clock = EpochMs
    /\ timer = NoTimer
    /\ host = NoHost
    /\ inflight = <<>>
    /\ mounted = "unmounted"
    /\ server = <<>>
    /\ cache = NoCache
    /\ searchTerm = <<>>
    /\ admin = NoAdmin
    /\ eventsPage \in { SummaryShown(l, EpochMs) : l \in SummaryLists }

NextSummary ==
    \/ \E key \in EventFilters : SetEventsFilter(key)
    \/ Advance

SpecSummary == InitSummary /\ [][NextSummary]_vars

\* the admin runs: the route shows the challenge admin form
InitAdmin ==
    /\ eventDetails = NoDetails
    /\ loading = TRUE
    /\ error = NoError
    /\ filter = "active"
    /\ currentTime = EpochMs
    /\ clock = EpochMs
    /\ timer = NoTimer
    /\ host = NoHost
    /\ inflight = <<>>
    /\ mounted = "unmounted"
    /\ server = <<>>
    /\ cache = NoCache
    /\ searchTerm = <<>>
    /\ eventsPage = NoPage
    /\ admin \in { ConstructedAdmin(l) : l \in AdminLists }

NextAdmin ==
    \/ AdminMount
    \/ FetchDataOk
    \/ FetchDataFail
    \/ AdminRetry
    \/ \E field \in DOMAIN FieldValues :
         \E value \in FieldValues[field] : SetField(field, value)
    \/ \E checked \in BOOLEAN : SetPublishFromStart(checked)
    \/ \E hours \in 0..MaxDuration : SetDuration(hours)
    \/ \E i \in DOMAIN admin.challenges : OpenEdit(i)
    \/ CancelEdit
    \/ handleSaveChallenge
    \/ \E i \in DOMAIN admin.saving : SaveOk(i)
    \/ \E i \in DOMAIN admin.saving : SaveNotOk(i)

SpecAdmin == InitAdmin /\ [][NextAdmin]_vars

\* the stats runs: the details on screen while the clock passes the
\* challenges' windows
InitStats ==
    /\ Constructed
    /\ server \in StatsLists
    /\ cache = FreshEntry(Details(server), EpochMs)

NextStats ==
    \/ MountCacheHit
    \/ Advance
    \/ Tick
    \/ \E f \in Filters : SetFilter(f)

SpecStats == InitStats /\ [][NextStats]_vars

NextEngine == MountCacheHit

SpecEngine == InitEngine /\ [][NextEngine]_vars

(***************************************************************************)
(* Properties.                                                             *)
(***************************************************************************)
\* details are loaded in a mounted view; once the details screen renders,
\* every challenge is classified at currentTime (getFilterCounts)
Shown == mounted = "mounted" /\ eventDetails.loaded

Challenges == { eventDetails.challenges[i] : i \in DOMAIN eventDetails.challenges }

StatusOf(c) == getChallengeStatus(c, currentTime).status

\* C1: a completed challenge classifies as completed whatever the current
\* time, its release and end instants and its type are.
C1_CompletedTakesPrecedence ==
    Shown => \A c \in Challenges : c.isCompleted => StatusOf(c) = "completed"

\* a completed challenge not yet released and already past its end
C1_Witness ==
    /\ Shown
    /\ \E c \in Challenges :
         /\ c.isCompleted
         /\ currentTime < c.releaseTime
         /\ currentTime > c.endTime
         /\ StatusOf(c) = "completed"

\* C2: a non-permanent, not completed challenge with releaseTime <= endTime
\* is upcoming strictly before releaseTime, active at releaseTime and at
\* endTime, expired strictly after endTime.
C2_WindowBoundaries ==
    Shown =>
      \A c \in Challenges :
        (~c.isCompleted /\ c.type # "PERMANENT" /\ c.releaseTime <= c.endTime) =>
          /\ currentTime < c.releaseTime => StatusOf(c) = "upcoming"
          /\ currentTime = c.releaseTime => StatusOf(c) = "active"
          /\ currentTime = c.endTime => StatusOf(c) = "active"
          /\ currentTime > c.endTime => StatusOf(c) = "expired"

\* a challenge shown at the very instant it ends
C2_Witness ==
    /\ Shown
    /\ \E c \in Challenges :
         /\ ~c.isCompleted
         /\ c.type # "PERMANENT"
         /\ c.releaseTime < c.endTime
         /\ currentTime = c.endTime
         /\ StatusOf(c) = "active"

\* C3: a PERMANENT challenge never classifies as expired, and the expired
\* counter of the stats never counts one.
C3_PermanentNeverExpires ==
    Shown =>
      /\ \A c \in Challenges : c.type = "PERMANENT" => StatusOf(c) # "expired"
      /\ stats(eventDetails, currentTime).expiredChallenges
           <= Cardinality({ i \in DOMAIN eventDetails.challenges :
                              eventDetails.challenges[i].type # "PERMANENT" })

\* a permanent challenge shown after its end instant, next to an expired one
C3_Witness ==
    /\ Shown
    /\ \E c \in Challenges :
         c.type = "PERMANENT" /\ ~c.isCompleted /\ currentTime > c.endTime
    /\ stats(eventDetails, currentTime).expiredChallenges = 1

\* the priority order of the classification, stated rule by rule
PriorityStatus(c, now) ==
    CASE c.isCompleted -> "completed"
      [] ~c.isCompleted /\ now < c.releaseTime -> "upcoming"
      [] ~c.isCompleted /\ ~(now < c.releaseTime)
           /\ c.type # "PERMANENT" /\ now > c.endTime -> "expired"
      [] OTHER -> "active"

\* C4: classification is total and follows the priority order completed,
\* upcoming, expired, active, also when endTime < releaseTime; with
\* endTime < now < releaseTime the result is upcoming.
C4_TotalPriorityOrder ==
    Shown =>
      \A c \in Challenges :
        /\ StatusOf(c) \in {"completed", "upcoming", "expired", "active"}
        /\ StatusOf(c) = PriorityStatus(c, currentTime)
        /\ (~c.isCompleted /\ c.endTime < currentTime /\ currentTime < c.releaseTime)
             => StatusOf(c) = "upcoming"

\* a non-permanent challenge whose end lies before now and whose release after
C4_Witness ==
    /\ Shown
    /\ \E c \in Challenges :
         /\ ~c.isCompleted
         /\ c.type # "PERMANENT"
         /\ c.endTime < currentTime
         /\ currentTime < c.releaseTime
         /\ StatusOf(c) = "upcoming"

CountdownOf(c) == getCountdown(c, currentTime)

\* C5: the countdown never shows a negative unit, and at now = releaseTime
\* it shows the text of the active state (the permanent label or a
\* remaining time), no longer the 'starts in' text.
C5_NoNegativeUnitActiveTextAtRelease ==
    Shown =>
      \A c \in Challenges :
        /\ \A i \in DOMAIN CountdownOf(c).units : CountdownOf(c).units[i].n >= 0
        /\ (currentTime = c.releaseTime /\ StatusOf(c) = "active") =>
             CountdownOf(c).label \in {"Permanent", "restantes"}

\* whole seconds from now to the instant t
SecondsUntil(t) == (t - currentTime) \div 1000

UnitsOf(diff) ==
    <<Unit(diff \div 86400, "j"), Unit((diff % 86400) \div 3600, "h"),
      Unit((diff % 3600) \div 60, "m"), Unit(diff % 60, "s")>>

\* the largest two units that are not zero; seconds alone under a minute
TwoLargestNonZero(diff) ==
    LET shown == SelectSeq(UnitsOf(diff), LAMBDA x : x.n > 0)
    IN  IF diff < 60 THEN <<UnitsOf(diff)[4]>>
        ELSE SubSeq(shown, 1, IF Len(shown) < 2 THEN Len(shown) ELSE 2)

\* the largest unit that is not zero and the unit after it; seconds alone
\* under a minute
LargestAndNext(diff) ==
    LET k == CHOOSE i \in 1..4 :
               /\ UnitsOf(diff)[i].n > 0
               /\ \A j \in 1..(i - 1) : UnitsOf(diff)[j].n = 0
    IN  IF diff < 60 THEN <<UnitsOf(diff)[4]>>
        ELSE <<UnitsOf(diff)[k], UnitsOf(diff)[k + 1]>>

\* the duration a countdown text is about
ShownDuration(c) ==
    IF CountdownOf(c).label = "Demarre dans" THEN SecondsUntil(c.releaseTime)
    ELSE SecondsUntil(c.endTime)

\* C6 as claimed: a countdown that shows a duration shows its largest two
\* non-zero units, never a zero-valued one.
C6_TwoLargestNonZeroUnits ==
    Shown =>
      \A c \in Challenges :
        CountdownOf(c).label \in {"Demarre dans", "restantes"} =>
          CountdownOf(c).units = TwoLargestNonZero(ShownDuration(c))

\* C6: a countdown that shows a duration (the 'starts in' text of an upcoming
\* challenge, the remaining time of an active non-permanent one) shows the
\* largest non-zero unit followed by the next smaller unit, zero or not, and
\* seconds alone under a minute.
C6_LargestUnitAndNext ==
    Shown =>
      \A c \in Challenges :
        /\ StatusOf(c) = "upcoming" => CountdownOf(c).label = "Demarre dans"
        /\ CountdownOf(c).label \in {"Demarre dans", "restantes"} =>
             CountdownOf(c).units = LargestAndNext(ShownDuration(c))

\* 1 day 0 hours 30 minutes before release: shown as 1j 0h
C6_Witness ==
    /\ Shown
    /\ \E c \in Challenges :
         /\ ~c.isCompleted
         /\ c.releaseTime - currentTime = (86400 + 30 * 60) * 1000
         /\ CountdownOf(c).label = "Demarre dans"
         /\ CountdownOf(c).units = <<Unit(1, "j"), Unit(0, "h")>>

\* released an hour ago, ending in thirty minutes
HalfHourLeft(c) ==
    /\ c.type = "TEMPORARY"
    /\ ~c.isCompleted
    /\ c.releaseTime = currentTime - 3600000
    /\ c.endTime = currentTime + 1800000

\* the tier of a remaining time of several hours
SeveralHoursTier == CountdownRemaining(3 * 3600).color

\* the tier of a remaining time under ten minutes
UnderTenMinutesTier == CountdownRemaining(9 * 60).color

\* C7 as claimed: in the scenario the status is active, the tier is the one
\* of several hours, and the refresh delay is 30 minutes.
C7_HalfHourIsNormalTier ==
    Shown =>
      \A c \in Challenges :
        HalfHourLeft(c) =>
          /\ StatusOf(c) = "active"
          /\ CountdownOf(c).color = SeveralHoursTier
          /\ timer.set
          /\ timer.delay = 1800000 + 1000

\* C7: in the scenario the status is active, the tier is the intermediate
\* one (#ff8800, from ten minutes up to an hour), which is neither the tier
\* of several hours nor the tier under ten minutes, and the refresh delay
\* is 30 minutes, to which the timer adds its 1000 ms.
C7_HalfHourIsWarningTier ==
    Shown =>
      \A c \in Challenges :
        HalfHourLeft(c) =>
          /\ StatusOf(c) = "active"
          /\ CountdownOf(c).units = <<Unit(30, "m"), Unit(0, "s")>>
          /\ CountdownOf(c).color = "#ff8800"
          /\ CountdownOf(c).color # SeveralHoursTier
          /\ CountdownOf(c).color # UnderTenMinutesTier
          /\ timer.set
          /\ timer.delay = 1800000 + 1000
          /\ timer.deadline = clock + 1800000 + 1000

C7_Witness ==
    /\ Shown
    /\ \E c \in Challenges : HalfHourLeft(c) /\ StatusOf(c) = "active"
    /\ timer.set

\* the instant at which the pending timer was armed
ArmedAt == timer.deadline - timer.delay

\* the candidate delays of challenge c at instant t, as the refresh scheduler
\* is specified: the release if it is ahead, else the end of a challenge that
\* is neither completed nor permanent
SpecifiedCandidates(c, t) ==
    IF t < c.releaseTime THEN {c.releaseTime - t}
    ELSE IF ~c.isCompleted /\ c.type # "PERMANENT" /\ t <= c.endTime
    THEN {c.endTime - t}
    ELSE {}

\* C8: a pending refresh timer stems from a candidate of some challenge:
\* its release if ahead, else its end only if the challenge is neither
\* completed nor PERMANENT; a released challenge that is completed or
\* PERMANENT causes no refresh at its endTime.
C8_CandidatesSkipCompletedAndPermanent ==
    (Shown /\ timer.set) =>
      \E c \in Challenges :
        \E d \in SpecifiedCandidates(c, ArmedAt) : d > 0 /\ timer.delay = d + 1000

\* the instants of challenge c that lie ahead of t and move nextUpdate: the
\* release, or else the end
Candidates(c, t) ==
    IF c.releaseTime > t THEN {c.releaseTime - t}
    ELSE IF c.endTime > t THEN {c.endTime - t}
    ELSE {}

AllCandidates(t) == UNION { Candidates(c, t) : c \in Challenges }

\* C9: the delay of the pending timer is the least strictly positive
\* candidate of all challenges at the instant it was armed, plus 1000 ms.
C9_DelayIsMinimumPlusMargin ==
    (Shown /\ timer.set) =>
      /\ timer.delay - 1000 \in AllCandidates(ArmedAt)
      /\ \A d \in AllCandidates(ArmedAt) : d > 0 /\ timer.delay - 1000 <= d

\* two challenges with different candidates: the nearer one decides
C9_Witness ==
    /\ Shown
    /\ timer.set
    /\ Cardinality(AllCandidates(ArmedAt)) = 2
    /\ \E d \in AllCandidates(ArmedAt) : timer.delay - 1000 < d

\* a step in which the auto-refresh effect runs on newly set details
EffectRuns ==
    \/ MountCacheHit
    \/ RetryCacheHit
    \/ \E i \in 1..MaxInflight : FetchOk(i) /\ mounted = "mounted"

\* no challenge has a release or an end strictly after t
NothingAhead(details, t) ==
    \A i \in DOMAIN details.challenges :
      details.challenges[i].releaseTime <= t /\ details.challenges[i].endTime <= t

\* a step that issues the boundary-triggered fetch
BoundaryFetchIssued ==
    /\ Len(inflight') = Len(inflight) + 1
    /\ inflight'[Len(inflight')].kind = "boundary"

\* C10: when the details just loaded hold no challenge, or none with a
\* release or end strictly in the future, the effect arms no timer; and a
\* state without timer never issues a boundary-triggered fetch.
C10_NoBoundaryNoTimer ==
    [][ /\ (EffectRuns /\ NothingAhead(eventDetails', clock')) => ~timer'.set
        /\ ~timer.set => ~BoundaryFetchIssued ]_vars

\* details whose instants are all behind, no timer, and time has passed
\* since they were loaded without any fetch being issued
C10_Witness ==
    /\ Shown
    /\ eventDetails.challenges # <<>>
    /\ cache.present
    /\ NothingAhead(eventDetails, cache.timestamp)
    /\ clock > cache.timestamp
    /\ ~timer.set
    /\ inflight = <<>>

(***************************************************************************)
(* The release scenario.                                                   *)
(***************************************************************************)
\* the challenges on display that open 10 s after construction
Opening == { c \in Challenges : ~c.isCompleted /\ c.releaseTime = EpochMs + 10000 }

\* the pending timeout was armed 10 s before challenge c opens
ArmedTenSecondsBefore(c) == timer.set /\ ArmedAt + 10000 = c.releaseTime

\* C11: when the only boundary ahead is the release, in 10 s, of a challenge
\* that is not completed, the timeout is armed with 10 s plus the margin of
\* 1 s; the boundary fetch is issued at the release instant plus 1 s; and
\* from the first tick at or after the release, while the end has not
\* passed, the challenge classifies as active, also when that fetch is issued.
C11_ReleaseInTenSeconds ==
    [][ \A c \in Opening :
          /\ (Shown /\ ArmedTenSecondsBefore(c)) =>
                /\ timer.delay = 10000 + 1000
                /\ timer.deadline = c.releaseTime + 1000
                /\ BoundaryFetchIssued =>
                      /\ clock = c.releaseTime + 1000
                      /\ currentTime >= c.releaseTime
                      /\ StatusOf(c) = "active"
          /\ (Shown /\ currentTime >= c.releaseTime
                /\ (c.type = "PERMANENT" \/ currentTime <= c.endTime)) =>
                StatusOf(c) = "active" ]_vars

\* the boundary fetch has just been issued, 11 s after the details were
\* loaded at construction, and the challenge shows as active
C11_Witness ==
    /\ Shown
    /\ clock = EpochMs + 10000 + 1000
    /\ \E i \in DOMAIN inflight : inflight[i].kind = "boundary"
    /\ cache.present /\ cache.timestamp < EpochMs
    /\ \E c \in Opening : StatusOf(c) = "active" /\ currentTime >= c.releaseTime

(***************************************************************************)
(* The timeouts of the host.                                               *)
(***************************************************************************)
\* C12: at most one refresh timeout is pending.  When the effect runs on
\* newly arrived details no timeout survives but the one it has just armed
\* from them, and the timeout whose callback issues the boundary fetch is
\* spent, so a boundary causes one fetch at most.
C12_AtMostOneRefreshTimer ==
    [][ /\ Len(host'.timeouts) <= 1
        /\ EffectRuns => \A i \in DOMAIN host'.timeouts : host'.timeouts[i] = timer'
        /\ BoundaryFetchIssued => host'.timeouts = <<>> /\ ~timer'.set ]_vars

\* a timeout is pending, not yet due, while the response of a manual
\* refresh is on its way: its arrival runs the effect again
C12_Witness ==
    /\ Shown
    /\ timer.set
    /\ host.timeouts = <<timer>>
    /\ clock < timer.deadline
    /\ \E i \in DOMAIN inflight : inflight[i].kind = "manual"

\* C13: once the view is unmounted neither the interval nor a refresh
\* timeout is scheduled, whatever was pending at teardown; from then on
\* currentTime is never set again and no fetch is issued.
C13_NothingRunsAfterUnmount ==
    [][ mounted' = "unmounted" =>
          /\ ~host'.interval
          /\ host'.timeouts = <<>>
          /\ currentTime' = currentTime
          /\ Len(inflight') <= Len(inflight) ]_vars

\* torn down with details whose next boundary is still ahead; since then a
\* second has passed on the clock without a tick
C13_Witness ==
    /\ mounted = "unmounted"
    /\ eventDetails.loaded
    /\ AllCandidates(clock) # {}
    /\ clock >= currentTime + 1000
    /\ host = NoHost

(***************************************************************************)
(* Countdown against classification.                                       *)
(***************************************************************************)
\* C15: for every challenge on display the countdown label matches the
\* status at currentTime: the expired label exactly when expired, the
\* completed label exactly when completed, the 'starts in' text exactly when
\* upcoming, the permanent label exactly when active and PERMANENT, and a
\* remaining-time text exactly when active and not PERMANENT, the instant of
\* endTime and the second before it included.
C15_CountdownAgreesWithStatus ==
    Shown =>
      \A c \in Challenges :
        /\ CountdownOf(c).label = "Expire" <=> StatusOf(c) = "expired"
        /\ CountdownOf(c).label = "Complete" <=> StatusOf(c) = "completed"
        /\ CountdownOf(c).label = "Demarre dans" <=> StatusOf(c) = "upcoming"
        /\ CountdownOf(c).label = "Permanent" <=>
             (StatusOf(c) = "active" /\ c.type = "PERMANENT")
        /\ CountdownOf(c).label = "restantes" <=>
             (StatusOf(c) = "active" /\ c.type # "PERMANENT")

(***************************************************************************)
(* A refresh is always on its way.                                         *)
(***************************************************************************)
\* details are loaded and the release or the end of some challenge on
\* display lies ahead of the clock
TransitionPending == Shown /\ AllCandidates(clock) # {}

TimerPending == Len(host.timeouts) = 1

\* C16 as claimed: while details are loaded and a transition is pending,
\* one refresh timeout is pending or a fetch is in flight, whatever manual
\* refreshes, boundary fetches, successes and failures came before.
C16_TimerOrFetchPending ==
    TransitionPending => (TimerPending \/ inflight # <<>>)

\* C16 amended: while details are loaded and a transition is pending, one
\* refresh timeout is pending, or a fetch is in flight, or a fetch has
\* failed and its error is still set: the view then shows the error screen
\* and waits for the retry button.
C16_TimerOrFetchOrError ==
    TransitionPending => (TimerPending \/ inflight # <<>> \/ error # NoError)

\* the boundary fetch has failed: a transition is still ahead, no timeout
\* is left, nothing is in flight, the error is set
C16_Witness ==
    /\ TransitionPending
    /\ host.timeouts = <<>>
    /\ inflight = <<>>
    /\ error # NoError
    /\ ~loading

(***************************************************************************)
(* Boundaries far ahead.                                                   *)
(***************************************************************************)
\* the release and end instants of the challenges on display
Boundaries == UNION { {c.releaseTime, c.endTime} : c \in Challenges }

\* C17: the boundary fetch is never issued before the nearest boundary has
\* passed by the margin of 1000 ms: some release or end instant lay ahead
\* when the timeout was armed and lies at least 1000 ms behind when the
\* callback runs, however far ahead it was, delays above 2^31 - 1 ms
\* included; a boundary far ahead causes no immediate fetch.
C17_NeverBeforeTheBoundary ==
    [][ BoundaryFetchIssued =>
          \E b \in Boundaries : ArmedAt < b /\ b <= clock - 1000 ]_vars

(***************************************************************************)
(* Responses out of order.                                                 *)
(***************************************************************************)
SameChallenges(a, b) ==
    /\ a.loaded = b.loaded
    /\ { a.challenges[i] : i \in DOMAIN a.challenges }
         = { b.challenges[i] : i \in DOMAIN b.challenges }

\* request i leaves the fetches in flight of the mounted view
Arrives(i) ==
    /\ mounted = "mounted"
    /\ i \in DOMAIN inflight
    /\ inflight' = DropRequest(i)

\* C18: no response is discarded and none is checked against the order of
\* the requests: whichever request it answers, the earlier one of two in
\* flight included, an arriving response either is a failure that sets the
\* error, or puts its data into eventDetails and into the cache entry.
C18_LastArrivalWins ==
    [][ \A i \in 1..MaxInflight :
          Arrives(i) =>
            \/ error' # NoError /\ cache' = cache /\ eventDetails' = eventDetails
            \/ /\ SameChallenges(eventDetails', inflight[i].data)
               /\ cache'.present
               /\ cache'.data = inflight[i].data
               /\ cache'.timestamp = clock ]_vars

\* a manual refresh and a boundary fetch were in flight together; the
\* response to the boundary fetch, issued after the data provider's copy
\* changed, has been applied, and the response to the manual refresh, issued
\* before the change, is still to arrive with the older data
C18_Witness ==
    /\ Shown
    /\ Len(inflight) = 1
    /\ inflight[1].kind = "manual"
    /\ inflight[1].data # Details(server)
    /\ cache.present
    /\ cache.data = Details(server)
    /\ SameChallenges(eventDetails, Details(server))

(***************************************************************************)
(* The caches of the three views.                                          *)
(***************************************************************************)
ClaimedTTL(view) ==
    CASE view = "details" -> 300000
      [] view = "summary" -> 1800000
      [] view = "dates" -> 3600000

Usable(entry, view) ==
    entry.present /\ entry.parses /\ clock - entry.timestamp < ClaimedTTL(view)

\* the load effect of the detail view runs: at mount, or after the retry
\* button changed refreshKey
DetailLoads ==
    \/ mounted = "constructed" /\ mounted' = "mounted"
    \/ mounted = "mounted" /\ error # NoError /\ error' = NoError

\* the refresh button of the detail view changed refreshKey
DetailRefreshes ==
    /\ Len(inflight') = Len(inflight) + 1
    /\ inflight'[Len(inflight')].kind = "manual"

ListLoads == eventsPage.mounted = "constructed" /\ eventsPage'.mounted = "mounted"

\* the refresh button of the summary view changed refreshKey
ListRefreshes ==
    /\ eventsPage.mounted = "mounted"
    /\ eventsPage.error = NoError
    /\ eventsPage'.requests = eventsPage.requests + 1

\* C19: when a caching view loads, its cache entry is used and no fetch is
\* issued exactly when the entry parses and is younger than the view's time
\* to live: 300000 ms for the event details, 1800000 ms for the events
\* summary, 3600000 ms for the event dates; otherwise, and after a refresh
\* button removed the entry, a fetch is issued.  An entry that gets stored
\* parses and carries the instant it is stored at.
C19_CacheUsedWhileYoungerThanTTL ==
    [][ /\ DetailLoads =>
             IF Usable(cache, "details")
             THEN inflight' = inflight /\ SameChallenges(eventDetails', cache.data)
             ELSE Len(inflight') = Len(inflight) + 1
        /\ ListLoads =>
             IF Usable(eventsPage.cache, eventsPage.view)
             THEN /\ eventsPage'.requests = eventsPage.requests
                  /\ eventsPage'.events = eventsPage.cache.data
             ELSE eventsPage'.requests = eventsPage.requests + 1
        /\ DetailRefreshes => ~cache'.present
        /\ ListRefreshes => ~eventsPage'.cache.present
        /\ (cache' # cache /\ cache'.present) =>
             cache'.parses /\ cache'.timestamp = clock
        /\ (eventsPage'.cache # eventsPage.cache /\ eventsPage'.cache.present) =>
             eventsPage'.cache.parses /\ eventsPage'.cache.timestamp = clock ]_vars

\* the summary view has loaded from an entry one millisecond younger than
\* its 30 minutes, without a fetch
C19_Witness ==
    /\ eventsPage.view = "summary"
    /\ eventsPage.mounted = "mounted"
    /\ eventsPage.events = CachedEvents
    /\ eventsPage.requests = 0
    /\ eventsPage.cache.present
    /\ clock - eventsPage.cache.timestamp = 1799999

(***************************************************************************)
(* The frame of the tick.                                                  *)
(***************************************************************************)
\* C20: a step that sets currentTime, the tick, changes nothing else: not
\* eventDetails, the cache entry, loading, error, the filter, nor the
\* pending refresh timeout and its deadline.
C20_TickChangesOnlyCurrentTime ==
    [][ currentTime' # currentTime =>
          UNCHANGED <<eventDetails, cache, loading, error, filter, timer, host>> ]_vars

(***************************************************************************)
(* The challenge set under the derivation of the displayed list.           *)
(***************************************************************************)
\* C21: rendering the list never changes the challenge set: whatever the
\* filter, 'all' included, eventDetails.challenges holds the challenges in
\* the order the last fetch or cache load delivered them, which in these
\* runs is the order the data provider keeps.
C21_DerivationLeavesChallengesAlone ==
    Shown => eventDetails.challenges = server

(***************************************************************************)
(* The stats counters.                                                     *)
(***************************************************************************)
Indices == DOMAIN eventDetails.challenges

WithStatus(status) ==
    { i \in Indices : StatusOf(eventDetails.challenges[i]) = status }

RECURSIVE SumOfPoints(_)
SumOfPoints(indices) ==
    IF indices = {} THEN 0
    ELSE LET i == CHOOSE j \in indices : TRUE
         IN  eventDetails.challenges[i].points + SumOfPoints(indices \ {i})

\* C22: for the loaded challenges at currentTime the four status counters
\* add up to totalChallenges, each equals the number of challenges of that
\* status and the filter count of that status, earnedPoints is the sum of
\* the points of the completed challenges, and 0 <= earnedPoints <=
\* totalPoints.
C22_StatsPartitionTheChallenges ==
    Shown =>
      LET st == stats(eventDetails, currentTime)
          counts == getFilterCounts(eventDetails, currentTime)
      IN  /\ st.totalChallenges = Len(eventDetails.challenges)
          /\ st.completedChallenges + st.upcomingChallenges
               + st.expiredChallenges + st.activeChallenges = st.totalChallenges
          /\ st.completedChallenges = Cardinality(WithStatus("completed"))
          /\ st.upcomingChallenges = Cardinality(WithStatus("upcoming"))
          /\ st.expiredChallenges = Cardinality(WithStatus("expired"))
          /\ st.activeChallenges = Cardinality(WithStatus("active"))
          /\ counts.all = st.totalChallenges
          /\ counts.completed = st.completedChallenges
          /\ counts.upcoming = st.upcomingChallenges
          /\ counts.expired = st.expiredChallenges
          /\ counts.active = st.activeChallenges
          /\ st.earnedPoints = SumOfPoints(WithStatus("completed"))
          /\ st.totalPoints = SumOfPoints(Indices)
          /\ 0 <= st.earnedPoints
          /\ st.earnedPoints <= st.totalPoints

\* a completed challenge worth 10 points next to an expired one worth 25
C22_Witness ==
    /\ Shown
    /\ stats(eventDetails, currentTime).totalChallenges = 2
    /\ stats(eventDetails, currentTime).completedChallenges = 1
    /\ stats(eventDetails, currentTime).expiredChallenges = 1
    /\ stats(eventDetails, currentTime).earnedPoints = 10
    /\ stats(eventDetails, currentTime).totalPoints = 35

(***************************************************************************)
(* The error after a fetch that succeeded.                                 *)
(***************************************************************************)
\* C23: when a fetch of the event details succeeds and its data is stored
\* in eventDetails, error is null afterwards, whatever happened to earlier
\* fetches.
C23_SuccessLeavesNoError ==
    [][\A i \in DOMAIN inflight :
          (mounted = "mounted" /\ FetchOk(i)) => error' = NoError]_vars

(***************************************************************************)
(* The loading flag while requests are in flight.                          *)
(***************************************************************************)
\* C24: loading is true in every state of the mounted view in which a
\* fetch of the event details is in flight; with two in flight it stays
\* true when the first of them completes.
C24_LoadingWhileInFlight ==
    (mounted = "mounted" /\ inflight # <<>>) => loading

(***************************************************************************)
(* Responses that are not OK.                                              *)
(***************************************************************************)
\* a response that is not OK arrives in one of the three fetching views
NotOkArrives ==
    \/ \E i \in DOMAIN inflight : FetchFail(i)
    \/ EventsFetchFail
    \/ SummaryNotOkStored

\* C25: in the three fetching views a response that is not OK replaces no
\* displayed data and writes no cache entry.
C25_NotOkStoresNothing ==
    [][NotOkArrives =>
         /\ eventDetails' = eventDetails
         /\ cache' = cache
         /\ eventsPage'.events = eventsPage.events
         /\ eventsPage'.cache = eventsPage.cache]_vars

(***************************************************************************)
(* The challenge admin form.                                               *)
(***************************************************************************)
Editing == admin.editingChallenge # <<>>

\* one of the edited challenge's own fields is changed
FieldChanged ==
    \E field \in DOMAIN FieldValues :
       \E value \in FieldValues[field] : SetField(field, value)

\* C26: while an existing challenge is being edited, changing one of its
\* own fields leaves publishFromStart and duration as they are in the form.
C26_FieldChangeKeepsPublishAndDuration ==
    [][(Editing /\ FieldChanged) =>
         /\ admin'.publishFromStart = admin.publishFromStart
         /\ admin'.duration = admin.duration]_vars

\* the form shows a listed challenge as it was opened: the object of the
\* list, with the flag and the duration the effect gave it
OpenedUnchanged ==
    /\ Editing
    /\ admin.listObject
    /\ EditingEffect(admin) = admin

RequestSent == Len(admin'.saving) > Len(admin.saving)

LastRequest == admin'.saving[Len(admin'.saving)]

\* C27: saving a challenge that was opened for edit and not changed sends
\* a PUT whose releaseTime and endTime are the instants of the stored
\* releaseTime and endTime.
C27_SaveUnchangedKeepsTheTimes ==
    [][(OpenedUnchanged /\ handleSaveChallenge /\ RequestSent) =>
         /\ LastRequest.method = "PUT"
         /\ LastRequest.body.releaseTime.ms = admin.editingChallenge[1].releaseTime.ms
         /\ LastRequest.body.endTime.ms = admin.editingChallenge[1].endTime.ms]_vars

\* what a failed save has to leave alone
FormOf(a) ==
    <<a.newChallenge, a.editingChallenge, a.publishFromStart, a.duration,
      a.challenges>>

ResetForm(a) == <<NewChallengeDefaults, <<>>, TRUE, 0, a.challenges>>

\* the publication date to be sent, and the three failures of validation
ReleaseToSend ==
    IF admin.publishFromStart
    THEN currentChallenge(admin).event.startDate
    ELSE currentChallenge(admin).releaseTime

InvalidSave ==
    \/ currentChallenge(admin).type = "TEMPORARY" /\ ReleaseToSend.form # "date"
    \/ currentChallenge(admin).event = NoEvent
    \/ ReleaseToSend.form = "empty"
    \/ currentChallenge(admin).game = NoGame

NoRequestFormKept ==
    /\ admin'.saving = admin.saving
    /\ admin'.fetching = admin.fetching
    /\ admin'.error # NoError
    /\ FormOf(admin') = FormOf(admin)

\* C28: a save that fails validation sends no request; a failed save, by
\* validation or by a response that is not OK, sets error and leaves the
\* form and the list as they are; the form is reset and the list fetched
\* again only when the response is OK.
C28_FailedSaveKeepsTheForm ==
    [][/\ (handleSaveChallenge /\ InvalidSave) => NoRequestFormKept
       /\ handleSaveChallenge =>
            /\ FormOf(admin') = FormOf(admin)
            /\ admin'.fetching = admin.fetching
       /\ \A i \in DOMAIN admin.saving :
            /\ SaveNotOk(i) =>
                 /\ admin'.error # NoError
                 /\ FormOf(admin') = FormOf(admin)
                 /\ admin'.fetching = admin.fetching
            /\ SaveOk(i) =>
                 /\ FormOf(admin') = ResetForm(admin)
                 /\ admin'.fetching = admin.fetching + 1]_vars

\* the save of an edited challenge was refused for its publication date
C28_Witness ==
    /\ Editing
    /\ admin.error = "Date de publication invalide"
    /\ admin.saving = <<>>
    /\ admin.fetching = 0

(***************************************************************************)
(* The badges and the filters of the events summary list.                  *)
(***************************************************************************)
ListedUnder(event, key) ==
    \E j \in DOMAIN filterEvents(eventsPage.events, key, clock) :
       filterEvents(eventsPage.events, key, clock)[j] = event

Badge(event) == getEventStatus(event, clock)

\* C29: at every instant an event of the summary list is under 'active'
\* iff its badge is 'En cours', under 'upcoming' iff it is 'A venir', under
\* 'past' iff it is 'Termine', and the three counts add up to counts.all.
C29_BadgeAndFiltersAgree ==
    LET counts == getEventFilterCounts(eventsPage.events, clock)
    IN  /\ \A i \in DOMAIN eventsPage.events :
              LET event == eventsPage.events[i]
              IN  /\ ListedUnder(event, "active") <=> Badge(event) = "En cours"
                  /\ ListedUnder(event, "upcoming") <=> Badge(event) = "A venir"
                  /\ ListedUnder(event, "past") <=> Badge(event) = "Termine"
        /\ counts.active + counts.upcoming + counts.past = counts.all

(***************************************************************************)
(* The displayed list.                                                     *)
(***************************************************************************)
Displayed == getFilteredChallenges(eventDetails, filter, searchTerm, currentTime)

\* the game's name or a category's name contains the term, whatever the case
ContainsTerm(c) ==
    \E name \in {c.game.name} \cup { c.categories[i].name : i \in DOMAIN c.categories } :
       includes(toLowerCase(name), toLowerCase(searchTerm))

UnderFilter(c) == filter = "all" \/ StatusOf(c) = filter

Occurrences(c) == Cardinality({ j \in DOMAIN Displayed : Displayed[j] = c })

Rank(c) ==
    CASE StatusOf(c) = "active" -> 0
      [] StatusOf(c) = "upcoming" -> 1
      [] StatusOf(c) = "completed" -> 2
      [] StatusOf(c) = "expired" -> 3
      [] OTHER -> 4

\* by status priority, then by ascending releaseTime
InOrder ==
    \A i, j \in DOMAIN Displayed :
       i < j => \/ Rank(Displayed[i]) < Rank(Displayed[j])
                \/ /\ Rank(Displayed[i]) = Rank(Displayed[j])
                   /\ Displayed[i].releaseTime <= Displayed[j].releaseTime

\* C30 as stated: the displayed list holds, once each and in order, exactly
\* the loaded challenges under the selected filter whose game name or a
\* category name contains the search term, whatever the case.
C30_ExactlyTheMatchingChallenges ==
    Shown =>
      /\ \A c \in Challenges :
            Occurrences(c) = IF UnderFilter(c) /\ ContainsTerm(c) THEN 1 ELSE 0
      /\ \A j \in DOMAIN Displayed : Displayed[j] \in Challenges
      /\ InOrder

\* C30: the displayed list holds, once each and in order, exactly the
\* loaded challenges under the selected filter and, unless the search term
\* is blank (empty or spaces only), with a game name or a category name
\* that contains the term, whatever the case.
C30_ExactlyTheMatchingUnlessBlank ==
    Shown =>
      /\ \A c \in Challenges :
            Occurrences(c) =
              IF UnderFilter(c) /\ (trim(searchTerm) = <<>> \/ ContainsTerm(c))
              THEN 1 ELSE 0
      /\ \A j \in DOMAIN Displayed : Displayed[j] \in Challenges
      /\ InOrder

\* a space typed into the search input: both upcoming challenges are
\* displayed, the earlier release first, though no name holds a space
C30_Witness ==
    /\ Shown
    /\ searchTerm = <<" ">>
    /\ filter = "upcoming"
    /\ Len(Displayed) = 2
    /\ Displayed[1].releaseTime < Displayed[2].releaseTime
    /\ eventDetails.challenges[1].releaseTime > eventDetails.challenges[2].releaseTime
    /\ \A c \in Challenges : ~ContainsTerm(c)

====
